---- MODULE Spec2Model ----
(***************************************************************************)
(* Model of the streemap tree map layout algorithms (src/src/lib.rs):      *)
(* slice, dice, binary, squarify, ordered_pivot_by_middle and              *)
(* ordered_pivot_by_size.                                                  *)
(*                                                                         *)
(* One call of one algorithm is one action.  The call's input (numeric     *)
(* type N, bounding rectangle, item weights) is chosen in Init; the action *)
(* records every invocation of f_item_set_rect, in the order the code      *)
(* makes them, in `calls`.                                                 *)
(*                                                                         *)
(* Numbers.  The code is generic over N.  Two instances are modelled:      *)
(*   "int"   a signed integer type (i32/i64 of the benches): division      *)
(*           truncates toward zero and division by zero panics;            *)
(*   "real"  a floating point type (f32/f64 of the tests) without          *)
(*           rounding: exact rationals, with the IEEE results of a         *)
(*           division by zero (x/0 = inf, 0/0 = NaN) and their             *)
(*           propagation.                                                  *)
(* A number is a pair <<n, d>> with d >= 0 in lowest terms; d = 0 encodes  *)
(* inf (<<1,0>>), -inf (<<-1,0>>) and NaN (<<0,0>>).                       *)
(***************************************************************************)
EXTENDS Integers, Sequences, FiniteSets, TLC

VARIABLES numeric, rect, items, pc, alg, calls, log

vars == <<numeric, rect, items, pc, alg, calls, log>>

(***************************************************************************)
(* Bounds of the model.                                                    *)
(***************************************************************************)
MaxLen == 3
MaxWeight == 3
MaxSide == 2

(***************************************************************************)
(* Numbers                                                                 *)
(***************************************************************************)
Abs(n) == IF n < 0 THEN -n ELSE n

Sgn(n) == IF n < 0 THEN -1 ELSE IF n > 0 THEN 1 ELSE 0

RECURSIVE Gcd(_, _)
Gcd(a, b) == IF b = 0 THEN a ELSE Gcd(b, a % b)

\* the number n/d, d >= 0, in lowest terms
Norm(n, d) ==
    IF d = 0 THEN <<Sgn(n), 0>>
    ELSE LET g == Gcd(Abs(n), d) IN <<n \div g, d \div g>>

Num(n) == <<n, 1>>

Zero == Num(0)

One == Num(1)

NaN == <<0, 0>>

IsNaN(a) == a = NaN

Add(a, b) ==
    IF a[2] = 0 \/ b[2] = 0
    THEN IF IsNaN(a) \/ IsNaN(b) THEN NaN
         ELSE IF a[2] = 0 /\ b[2] = 0 THEN (IF a = b THEN a ELSE NaN)
         ELSE IF a[2] = 0 THEN a ELSE b
    ELSE LET g == Gcd(a[2], b[2])
         IN Norm(a[1] * (b[2] \div g) + b[1] * (a[2] \div g), (a[2] \div g) * b[2])

Neg(a) == <<-a[1], a[2]>>

Sub(a, b) == Add(a, Neg(b))

\* the product, the common factors cancelled before multiplying
Mul(a, b) ==
    IF a[2] = 0 \/ b[2] = 0 THEN <<Sgn(a[1]) * Sgn(b[1]), 0>>
    ELSE LET g1 == Gcd(Abs(a[1]), b[2])
             g2 == Gcd(Abs(b[1]), a[2])
         IN <<(a[1] \div g1) * (b[1] \div g2), (a[2] \div g2) * (b[2] \div g1)>>

\* 1 / b for a finite b # 0
Inv(b) == <<Sgn(b[1]) * b[2], Abs(b[1])>>

\* integer division of Rust: the quotient truncated toward zero
TruncDiv(n, d) == Sgn(n) * Sgn(d) * (Abs(n) \div Abs(d))

\* a / b in the numeric type N; in "int" the caller has excluded b = 0
Div(N, a, b) ==
    IF N = "int"
    THEN IF b[1] = 0 THEN NaN ELSE Num(TruncDiv(a[1], b[1]))
    ELSE IF b[1] = 0
         THEN IF b[2] = 0 THEN NaN ELSE Norm(a[1], 0)
         ELSE IF b[2] = 0 THEN Norm(0, a[2])
         ELSE Mul(a, Inv(b))

\* a / b panics ("attempt to divide by zero")
DivPanics(N, b) == N = "int" /\ b = Zero

\* a1/a2 > b1/b2 for positive a1, a2, b1, b2, by the integer parts and then
\* the inverted fractional parts (no product is formed)
RECURSIVE GtPos(_, _, _, _)
GtPos(a1, a2, b1, b2) ==
    IF a1 \div a2 # b1 \div b2 THEN a1 \div a2 > b1 \div b2
    ELSE IF a1 % a2 = 0 THEN FALSE
    ELSE IF b1 % b2 = 0 THEN TRUE
    ELSE GtPos(b2, b1 % b2, a2, a1 % a2)

Gt(a, b) ==
    /\ ~IsNaN(a)
    /\ ~IsNaN(b)
    /\ IF a[2] = 0 /\ b[2] = 0 THEN a[1] > b[1]
       ELSE IF a[2] = 0 THEN a[1] > 0
       ELSE IF b[2] = 0 THEN b[1] < 0
       ELSE IF Sgn(a[1]) # Sgn(b[1]) THEN a[1] > b[1]
       ELSE IF a[1] > 0 THEN GtPos(a[1], a[2], b[1], b[2])
       ELSE IF a[1] < 0 THEN GtPos(-b[1], b[2], -a[1], a[2])
       ELSE FALSE

Lt(a, b) == Gt(b, a)

Ge(a, b) == ~IsNaN(a) /\ ~IsNaN(b) /\ ~Gt(b, a)

Le(a, b) == Ge(b, a)

RECURSIVE SumSeq(_)
SumSeq(s) == IF s = <<>> THEN Zero ELSE Add(SumSeq(SubSeq(s, 1, Len(s) - 1)), s[Len(s)])

(***************************************************************************)
(* Rect, and the outcome of a (partial) run: the assigner calls made, in   *)
(* order, the internal decisions taken (log), and how the run ended.       *)
(***************************************************************************)
Rect(x, y, w, h) == [x |-> x, y |-> y, w |-> w, h |-> h]

Call(idx, r) == [idx |-> idx, r |-> r]

Done(c, l) == [calls |-> c, log |-> l, end |-> "returned"]

Panic(c, l) == [calls |-> c, log |-> l, end |-> "fault"]

Nothing == Done(<<>>, <<>>)

\* run a, then (if a returned) run b
Then(a, b) ==
    IF a.end # "returned" THEN a
    ELSE [calls |-> a.calls \o b.calls, log |-> a.log \o b.log, end |-> b.end]

\* f_item_set_rect(&mut items[idx], r)
f_item_set_rect(idx, r) == Done(<<Call(idx, r)>>, <<>>)

\* the closure |item| f_item_size(item) * scale, applied to every item
Scaled(its, sc) == [i \in 1..Len(its) |-> Mul(its[i], sc)]

\* ratio without the ordering of the two terms
ratio_Unordered(side_squared, size_total, size_item) ==
    <<Mul(size_total, size_total), Mul(side_squared, size_item)>>

ratio(side_squared, size_total, size_item) ==
    LET a == Mul(size_total, size_total)
        b == Mul(side_squared, size_item)
    IN IF Ge(a, b) THEN <<a, b>> ELSE <<b, a>>

\* scale taken as 1: the sizes are laid out as they are given
scale_Unit(N, r, its) == One

\* scale: the value, and whether computing it panics
scale(N, r, its) == Div(N, Mul(r.w, r.h), SumSeq(its))

scalePanics(N, its) == DivPanics(N, SumSeq(its))

(***************************************************************************)
(* _slice and _dice.  sizes[i] is f_item_size of the i-th item of the      *)
(* slice, base the index in the caller's sequence of its first item.       *)
(***************************************************************************)
\* SliceH with the last strip given its computed share, not the remainder
SliceH_NoRemainder(N, r, sizes, i, y) == Div(N, sizes[i], r.w)

\* the height of the strip of item i (1-based) when the running offset is y
SliceH(N, r, sizes, i, y) ==
    IF i < Len(sizes) THEN Div(N, sizes[i], r.w) ELSE Sub(r.h, Sub(y, r.y))

RECURSIVE SliceFrom(_, _, _, _, _, _)
SliceFrom(N, r, sizes, base, i, y) ==
    IF i > Len(sizes) THEN Nothing
    ELSE IF i < Len(sizes) /\ DivPanics(N, r.w) THEN Panic(<<>>, <<>>)
    ELSE LET h == SliceH(N, r, sizes, i, y)
         IN Then(f_item_set_rect(base + i - 1, Rect(r.x, y, r.w, h)),
                 SliceFrom(N, r, sizes, base, i + 1, Add(y, h)))

_slice(N, r, sizes, base) == SliceFrom(N, r, sizes, base, 1, r.y)

slice(N, r, its) ==
    IF scalePanics(N, its) THEN Panic(<<>>, <<>>)
    ELSE _slice(N, r, Scaled(its, scale(N, r, its)), 0)

\* DiceW with the last strip given its computed share, not the remainder
DiceW_NoRemainder(N, r, sizes, i, x) == Div(N, sizes[i], r.h)

DiceW(N, r, sizes, i, x) ==
    IF i < Len(sizes) THEN Div(N, sizes[i], r.h) ELSE Sub(r.w, Sub(x, r.x))

RECURSIVE DiceFrom(_, _, _, _, _, _)
DiceFrom(N, r, sizes, base, i, x) ==
    IF i > Len(sizes) THEN Nothing
    ELSE IF i < Len(sizes) /\ DivPanics(N, r.h) THEN Panic(<<>>, <<>>)
    ELSE LET w == DiceW(N, r, sizes, i, x)
         IN Then(f_item_set_rect(base + i - 1, Rect(x, r.y, w, r.h)),
                 DiceFrom(N, r, sizes, base, i + 1, Add(x, w)))

\* _dice that stacks the items along y, as _slice does
_dice_Stacked(N, r, sizes, base) == SliceFrom(N, r, sizes, base, 1, r.y)

_dice(N, r, sizes, base) == DiceFrom(N, r, sizes, base, 1, r.x)

dice(N, r, its) ==
    IF scalePanics(N, its) THEN Panic(<<>>, <<>>)
    ELSE _dice(N, r, Scaled(its, scale(N, r, its)), 0)

(***************************************************************************)
(* binary.  items of _binary is represented by its length, which is the    *)
(* length of sums; base is the index of items[0] in the caller's sequence. *)
(***************************************************************************)
\* sums.binary_search_by(|&p| if p > target { Greater } else { Less }): the
\* comparator never answers Equal, so the search ends in Err(x), x the
\* bisection point; lo and hi are 0-based
RECURSIVE Bisect(_, _, _, _)
Bisect(sums, target, lo, hi) ==
    IF lo >= hi THEN lo
    ELSE LET m == lo + ((hi - lo) \div 2)
         IN IF Gt(sums[m + 1], target) THEN Bisect(sums, target, lo, m)
            ELSE Bisect(sums, target, m + 1, hi)

\* .unwrap_or_else(|x| if x == 0 { 1 } else { x })
BinaryMid(N, sums, offset, value) ==
    LET target == Add(Div(N, value, Add(One, One)), offset)
        x == Bisect(sums, target, 0, Len(sums))
    IN IF x = 0 THEN 1 ELSE x

\* BinaryCut with the cut at the middle of the side, whatever the weights
BinaryCut_Midpoint(N, r, left, right, value) ==
    IF Gt(r.w, r.h)
    THEN LET xe == Add(r.x, r.w)
             xm == Div(N, Add(r.x, xe), Add(One, One))
         IN <<Rect(r.x, r.y, Sub(xm, r.x), r.h), Rect(xm, r.y, Sub(xe, xm), r.h)>>
    ELSE LET ye == Add(r.y, r.h)
             ym == Div(N, Add(r.y, ye), Add(One, One))
         IN <<Rect(r.x, r.y, r.w, Sub(ym, r.y)), Rect(r.x, ym, r.w, Sub(ye, ym))>>

\* (lrect, rrect): the cut of r along its longer side
BinaryCut(N, r, left, right, value) ==
    IF Gt(r.w, r.h)
    THEN LET xe == Add(r.x, r.w)
             xm == Div(N, Add(Mul(r.x, right), Mul(xe, left)), value)
         IN <<Rect(r.x, r.y, Sub(xm, r.x), r.h), Rect(xm, r.y, Sub(xe, xm), r.h)>>
    ELSE LET ye == Add(r.y, r.h)
             ym == Div(N, Add(Mul(r.y, right), Mul(ye, left)), value)
         IN <<Rect(r.x, r.y, r.w, Sub(ym, r.y)), Rect(r.x, ym, r.w, Sub(ye, ym))>>

\* BinaryOrder with the right group laid out before the left one
BinaryOrder_RightFirst(l, rr) == Then(rr, l)

\* the left group is laid out, then the right group
BinaryOrder(l, rr) == Then(l, rr)

\* BinaryNoOp without the test of the cumulative weight
BinaryNoOp_EmptyOnly(sums, value) == Len(sums) = 0

\* items.is_empty() || value.is_zero(): the group is left without rectangles
BinaryNoOp(sums, value) == Len(sums) = 0 \/ value = Zero

RECURSIVE _binary(_, _, _, _, _, _)
_binary(N, r, sums, offset, value, base) ==
    IF BinaryNoOp(sums, value) THEN Nothing
    ELSE IF Len(sums) = 1 THEN f_item_set_rect(base, r)
    ELSE LET len == Len(sums)
             mid == BinaryMid(N, sums, offset, value)
             left == Sub(sums[mid], offset)
             right == Sub(value, left)
             cut == BinaryCut(N, r, left, right, value)
             ev == [t |-> "split", lo |-> base, len |-> len, mid |-> mid,
                    left |-> left, right |-> right]
             l == IF mid = 1 THEN f_item_set_rect(base, cut[1])
                  ELSE _binary(N, cut[1], SubSeq(sums, 1, mid), offset, left, base)
             rr == IF len - mid = 1 THEN f_item_set_rect(base + mid, cut[2])
                   ELSE IF len - mid > 0
                   THEN _binary(N, cut[2], SubSeq(sums, mid + 1, len), sums[mid],
                                right, base + mid)
                   ELSE Nothing
         IN IF mid = len
            THEN \* items[0..mid] is the whole group, with the same sums, offset
                 \* and value: the call repeats itself until the stack is
                 \* exhausted
                 [calls |-> <<>>, log |-> <<ev>>, end |-> "fault"]
            ELSE Then(Done(<<>>, <<ev>>), BinaryOrder(l, rr))

\* the running totals collected by binary
RECURSIVE PrefixSums(_)
PrefixSums(its) ==
    IF its = <<>> THEN <<>>
    ELSE LET p == PrefixSums(SubSeq(its, 1, Len(its) - 1))
         IN Append(p, Add(IF p = <<>> THEN Zero ELSE p[Len(p)], its[Len(its)]))

binary(N, r, its) ==
    IF its # <<>>
    THEN LET sums == PrefixSums(its)
         IN _binary(N, r, sums, Zero, sums[Len(sums)], 0)
    ELSE Nothing

(***************************************************************************)
(* squarify.  sizes are the f_item_size values of the remaining items,     *)
(* base the index of the first of them in the caller's sequence.           *)
(***************************************************************************)
\* Worse that also closes the row on an equal ratio
Worse_OrEqual(numer0, denom0, numer1, denom1) ==
    Ge(Mul(numer1, denom0), Mul(numer0, denom1))

\* worse, for an item of ratio (numer1, denom1) after one of (numer0, denom0)
Worse(numer0, denom0, numer1, denom1) == Gt(Mul(numer1, denom0), Mul(numer0, denom1))

\* items.iter().position(..).unwrap_or(items.len()): the scan of the closure
\* from the item at 0-based position idx on; split_idx is the position of the
\* first item judged worse, split_side the value the closure leaves behind
RECURSIVE Position(_, _, _, _, _, _, _, _, _)
Position(N, sizes, side, side_squared, split_side, idx, size_total0, numer0, denom0) ==
    IF idx >= Len(sizes)
    THEN [split_idx |-> Len(sizes), split_side |-> split_side, end |-> "returned"]
    ELSE LET size_item == sizes[idx + 1]
             size_total1 == Add(size_total0, size_item)
             r1 == ratio(side_squared, size_total1, size_item)
         IN IF Worse(numer0, denom0, r1[1], r1[2])
            THEN IF DivPanics(N, side)
                 THEN [split_idx |-> idx, split_side |-> split_side, end |-> "fault"]
                 ELSE [split_idx |-> idx, split_side |-> Div(N, size_total0, side),
                       end |-> "returned"]
            ELSE Position(N, sizes, side, side_squared, split_side, idx + 1,
                          size_total1, r1[1], r1[2])

\* one iteration of the loop of _squarify up to the split: the row found
SquarifyRow(N, r, sizes) ==
    LET is_wide == Gt(r.w, r.h)
        side == IF is_wide THEN r.h ELSE r.w
        split_side == IF is_wide THEN r.w ELSE r.h
    IN Position(N, sizes, side, Mul(side, side), split_side, 0, Zero, One, Zero)

\* the rectangle of the row (head) and the rectangle left for the tail
SquarifyRects(r, split_side) ==
    IF Gt(r.w, r.h)
    THEN <<Rect(r.x, r.y, split_side, r.h),
           Rect(Add(r.x, split_side), r.y, Sub(r.w, split_side), r.h)>>
    ELSE <<Rect(r.x, r.y, r.w, split_side),
           Rect(r.x, Add(r.y, split_side), r.w, Sub(r.h, split_side))>>

\* SquarifySplit with a tail that starts one item late
SquarifySplit_TailSkipsOne(sizes, split_idx) ==
    <<SubSeq(sizes, 1, split_idx),
      IF split_idx < Len(sizes) THEN SubSeq(sizes, split_idx + 2, Len(sizes)) ELSE <<>>>>

\* items.split_at_mut(split_idx): <<head, tail>>
SquarifySplit(sizes, split_idx) ==
    <<SubSeq(sizes, 1, split_idx), SubSeq(sizes, split_idx + 1, Len(sizes))>>

RECURSIVE _squarify(_, _, _, _)
_squarify(N, r, sizes, base) ==
    IF sizes = <<>> THEN Nothing
    ELSE LET row == SquarifyRow(N, r, sizes)
             is_wide == Gt(r.w, r.h)
             rs == SquarifyRects(r, row.split_side)
             head == SquarifySplit(sizes, row.split_idx)[1]
             tail == SquarifySplit(sizes, row.split_idx)[2]
             ev == [t |-> "row", lo |-> base, len |-> row.split_idx, wide |-> is_wide,
                    r |-> r, split_side |-> row.split_side]
         IN IF row.end = "fault" THEN Panic(<<>>, <<>>)
            ELSE IF row.split_idx = 0 /\ rs[2] = r
            THEN [calls |-> <<>>, log |-> <<ev>>, end |-> "hang"]
            ELSE Then(Done(<<>>, <<ev>>),
                      Then(IF is_wide THEN _slice(N, rs[1], head, base)
                           ELSE _dice(N, rs[1], head, base),
                           _squarify(N, rs[2], tail, base + row.split_idx)))

squarify(N, r, its) ==
    IF scalePanics(N, its) THEN Panic(<<>>, <<>>)
    ELSE _squarify(N, r, Scaled(its, scale(N, r, its)), 0)

(***************************************************************************)
(* ordered_pivot_by_middle and ordered_pivot_by_size.  its are the         *)
(* (unscaled) weights of the items of the group, scl the scale of the      *)
(* call: f_item_size of _ordered_pivot is |item| f_item_size(item) * scl.  *)
(* rule names the f_pivot closure.                                         *)
(***************************************************************************)
\* the fold of f_pivot of ordered_pivot_by_size, from 0-based position idx on
RECURSIVE PivotFold(_, _, _, _)
PivotFold(its, idx, idx_b, size_b) ==
    IF idx >= Len(its) THEN idx_b
    ELSE IF Gt(its[idx + 1], size_b) THEN PivotFold(its, idx + 1, idx, its[idx + 1])
    ELSE PivotFold(its, idx + 1, idx_b, size_b)

f_pivot(rule, its) ==
    IF rule = "middle" THEN Len(its) \div 2 ELSE PivotFold(its, 0, 0, Zero)

\* the for loop over lrem: <<p1_idx, pl2_size>> from 0-based position idx on
RECURSIVE BestRatio(_, _, _, _, _, _, _, _)
BestRatio(sizes, side_squared, idx, t_size, p1_idx, pl2_size, numer_b, denom_b) ==
    IF idx >= Len(sizes) THEN <<p1_idx, pl2_size>>
    ELSE LET size_item == sizes[idx + 1]
             t == Add(t_size, size_item)
             q == ratio(side_squared, t, size_item)
         IN IF Lt(Mul(q[1], denom_b), Mul(numer_b, q[2]))
            THEN BestRatio(sizes, side_squared, idx + 1, t, idx, t, q[1], q[2])
            ELSE BestRatio(sizes, side_squared, idx + 1, t, p1_idx, pl2_size,
                           numer_b, denom_b)

\* <<r1, rect>>: the rectangle of l1 and what is left of rect after it
PivotL1Rects(r, is_wide, r1_oside) ==
    IF is_wide
    THEN <<Rect(r.x, r.y, r1_oside, r.h),
           Rect(Add(r.x, r1_oside), r.y, Sub(r.w, r1_oside), r.h)>>
    ELSE <<Rect(r.x, r.y, r.w, r1_oside),
           Rect(r.x, Add(r.y, r1_oside), r.w, Sub(r.h, r1_oside))>>

\* <<rp, r2, r3>>
PivotRects(r, is_wide, pr2_oside, p_side) ==
    IF is_wide
    THEN <<Rect(r.x, r.y, pr2_oside, p_side),
           Rect(r.x, Add(r.y, p_side), pr2_oside, Sub(r.h, p_side)),
           Rect(Add(r.x, pr2_oside), r.y, Sub(r.w, pr2_oside), r.h)>>
    ELSE <<Rect(r.x, r.y, p_side, pr2_oside),
           Rect(Add(r.x, p_side), r.y, Sub(r.w, p_side), pr2_oside),
           Rect(r.x, Add(r.y, pr2_oside), r.w, Sub(r.h, pr2_oside))>>

RECURSIVE _ordered_pivot(_, _, _, _, _, _)
_ordered_pivot(N, r, its, scl, rule, base) ==
    LET p0_idx == f_pivot(rule, its)
        l1 == SubSeq(its, 1, p0_idx)
        lrem == SubSeq(its, p0_idx + 2, Len(its))
        is_wide == Ge(r.w, r.h)
        side == IF is_wide THEN r.h ELSE r.w
        side_squared == Mul(side, side)
        l1_size == SumSeq(Scaled(l1, scl))
        rs1 == PivotL1Rects(r, is_wide, Div(N, l1_size, side))
        rect1 == IF l1 = <<>> THEN r ELSE rs1[2]
        partL1 ==
            IF l1 = <<>> THEN Nothing
            ELSE IF DivPanics(N, side) THEN Panic(<<>>, <<>>)
            ELSE IF Len(l1) = 1 THEN f_item_set_rect(base, rs1[1])
            ELSE _ordered_pivot(N, rs1[1], l1, scl, rule, base)
        p_size == Mul(its[p0_idx + 1], scl)
        best == BestRatio(Scaled(lrem, scl), side_squared, 0, p_size, 0, p_size,
                          One, Zero)
        p1_idx == best[1]
        l2 == SubSeq(lrem, 1, p1_idx + 1)
        l3 == SubSeq(lrem, p1_idx + 2, Len(lrem))
        pr2_oside == Div(N, best[2], side)
        p_side == Div(N, p_size, pr2_oside)
        rs == PivotRects(rect1, is_wide, pr2_oside, p_side)
        partL2 ==
            IF Len(l2) = 1 THEN f_item_set_rect(base + p0_idx + 1, rs[2])
            ELSE IF l2 # <<>>
            THEN _ordered_pivot(N, rs[2], l2, scl, rule, base + p0_idx + 1)
            ELSE Nothing
        partL3 ==
            IF Len(l3) = 1 THEN f_item_set_rect(base + p0_idx + p1_idx + 2, rs[3])
            ELSE IF l3 # <<>>
            THEN _ordered_pivot(N, rs[3], l3, scl, rule, base + p0_idx + p1_idx + 2)
            ELSE Nothing
        partP ==
            IF lrem = <<>> THEN f_item_set_rect(base + p0_idx, rect1)
            ELSE IF DivPanics(N, side) \/ DivPanics(N, pr2_oside) THEN Panic(<<>>, <<>>)
            ELSE Then(f_item_set_rect(base + p0_idx, rs[1]), Then(partL2, partL3))
        ev == [t |-> "pivot", lo |-> base, len |-> Len(its), p0_idx |-> p0_idx,
               p1_idx |-> IF lrem = <<>> THEN -1 ELSE p1_idx]
    IN Then(Done(<<>>, <<ev>>), Then(partL1, partP))

ordered_pivot_by_middle(N, r, its) ==
    IF its # <<>>
    THEN IF scalePanics(N, its) THEN Panic(<<>>, <<>>)
         ELSE _ordered_pivot(N, r, its, scale(N, r, its), "middle", 0)
    ELSE Nothing

ordered_pivot_by_size(N, r, its) ==
    IF its # <<>>
    THEN IF scalePanics(N, its) THEN Panic(<<>>, <<>>)
         ELSE _ordered_pivot(N, r, its, scale(N, r, its), "size", 0)
    ELSE Nothing

(***************************************************************************)
(* The calls.                                                              *)
(***************************************************************************)
Numerics == {"int", "real"}

Origin == <<Num(1), Num(2)>>

Rects ==
    {Rect(Origin[1], Origin[2], Num(w), Num(h)) : w \in 0..MaxSide, h \in 0..MaxSide}

Weights == {Num(n) : n \in 0..MaxWeight}

ItemSeqs == UNION {[1..n -> Weights] : n \in 0..MaxLen}

\* the example of the squarified treemap paper (crate documentation, tests)
PaperItems == <<Num(6), Num(6), Num(4), Num(3), Num(2), Num(2), Num(1)>>

PaperRect == Rect(Zero, Zero, Num(6), Num(4))

Init ==
    /\ numeric \in Numerics
    /\ \/ rect \in Rects /\ items \in ItemSeqs
       \/ rect = PaperRect /\ items = PaperItems
    /\ pc = "ready"
    /\ alg = "none"
    /\ calls = <<>>
    /\ log = <<>>

\* weights of either sign: the numeric type is signed and no entry point
\* rejects a negative weight
MaxDebt == 1

SignedWeights == {Num(n) : n \in (0 - MaxDebt)..MaxDebt}

SignedItemSeqs == UNION {[1..n -> SignedWeights] : n \in 0..MaxLen}

InitSigned ==
    /\ numeric \in Numerics
    /\ rect \in Rects
    /\ items \in SignedItemSeqs
    /\ pc = "ready"
    /\ alg = "none"
    /\ calls = <<>>
    /\ log = <<>>

Layout(a, N, r, its) ==
    CASE a = "slice" -> slice(N, r, its)
      [] a = "dice" -> dice(N, r, its)
      [] a = "binary" -> binary(N, r, its)
      [] a = "squarify" -> squarify(N, r, its)
      [] a = "ordered_pivot_by_middle" -> ordered_pivot_by_middle(N, r, its)
      [] a = "ordered_pivot_by_size" -> ordered_pivot_by_size(N, r, its)

Run(a) ==
    /\ pc = "ready"
    /\ \E out \in {Layout(a, numeric, rect, items)} :
          /\ calls' = out.calls
          /\ log' = out.log
          /\ pc' = out.end
    /\ alg' = a
    /\ UNCHANGED <<numeric, rect, items>>

Slice == Run("slice")

Dice == Run("dice")

Binary == Run("binary")

Squarify == Run("squarify")

OrderedPivotByMiddle == Run("ordered_pivot_by_middle")

OrderedPivotBySize == Run("ordered_pivot_by_size")

Next ==
    \/ Slice
    \/ Dice
    \/ Binary
    \/ Squarify
    \/ OrderedPivotByMiddle
    \/ OrderedPivotBySize

Spec == Init /\ [][Next]_vars

SpecSigned == InitSigned /\ [][Next]_vars

(***************************************************************************)
(* Vocabulary of the properties.                                           *)
(***************************************************************************)
Algorithms ==
    {"slice", "dice", "binary", "squarify", "ordered_pivot_by_middle",
     "ordered_pivot_by_size"}

ScaledEntryPoints == Algorithms \ {"binary"}

\* equality of two numbers as the numeric type judges it: NaN equals nothing
Eq(a, b) == ~IsNaN(a) /\ ~IsNaN(b) /\ a = b

WeightTotal == SumSeq(items)

AllPositive == \A i \in 1..Len(items) : Gt(items[i], Zero)

Area(r) == Mul(r.w, r.h)

\* the indices the assigner was invoked on, in the order of the invocations
CallIdx == [i \in 1..Len(calls) |-> calls[i].idx]

StrictlyIncreasing(s) == \A i \in 1..(Len(s) - 1) : s[i] < s[i + 1]

\* the assigner was invoked exactly once for every item, in input order
AssignedOncePerItem == CallIdx = [i \in 1..Len(items) |-> i - 1]

\* item i (1-based) has weight zero and so has one of its neighbours, or it
\* is the only item and has weight zero: the items of the groups of
\* cumulative weight zero that _binary returns from without assigning
InZeroGroup(i) ==
    /\ items[i] = Zero
    /\ \/ Len(items) = 1
       \/ i > 1 /\ items[i - 1] = Zero
       \/ i < Len(items) /\ items[i + 1] = Zero

\* C1: during one call of any of the six algorithms, whether it returns or
\* panics, the indices of the items the rectangle assigner is invoked on are
\* strictly increasing (no item twice, none after a later one) and are
\* indices of the input.
C1_AssignOrderIncreasing ==
    pc # "ready" =>
        /\ StrictlyIncreasing(CallIdx)
        /\ \A i \in 1..Len(calls) : calls[i].idx \in 0..(Len(items) - 1)

C1_Witness ==
    /\ pc = "returned"
    /\ alg = "ordered_pivot_by_size"
    /\ Len(items) = 3
    /\ CallIdx = <<0, 1, 2>>
    /\ \E i \in 1..Len(log) : log[i].t = "pivot" /\ log[i].lo > 0

C3_EmptyIsNoOp ==
    (pc # "ready" /\ items = <<>>) => (pc = "returned" /\ calls = <<>>)

\* the areas of the assigned rectangles, in the order of the invocations
CallAreas == [i \in 1..Len(calls) |-> Area(calls[i].r)]

\* C4: in exact arithmetic, with all weights positive and a bounding
\* rectangle of positive area, after a call of any of the six algorithms the
\* rectangle assigned to an item has area weight * (rect.w * rect.h) / (sum
\* of the weights).
C4_AreaProportional ==
    (/\ pc = "returned"
     /\ numeric = "real"
     /\ AllPositive
     /\ Gt(rect.w, Zero)
     /\ Gt(rect.h, Zero)) =>
        \A i \in 1..Len(calls) :
            Eq(Area(calls[i].r),
               Div("real", Mul(items[calls[i].idx + 1], Area(rect)), WeightTotal))

C4_Witness ==
    /\ pc = "returned"
    /\ numeric = "real"
    /\ alg = "ordered_pivot_by_middle"
    /\ AllPositive
    /\ Gt(rect.w, rect.h)
    /\ Gt(rect.h, Zero)
    /\ Len(calls) = 3
    /\ CallAreas[1] # CallAreas[2]
    /\ CallAreas[2] # CallAreas[3]
    /\ WeightTotal # Area(rect)

\* C5: after a call of a scaled entry point (slice, dice, squarify, the two
\* ordered-pivot variants) on a non-empty input of non-zero total weight, the
\* areas of the assigned rectangles sum to rect.w * rect.h.
C5_AreaConserved ==
    (/\ pc = "returned"
     /\ alg \in ScaledEntryPoints
     /\ items # <<>>
     /\ WeightTotal # Zero) =>
        Eq(SumSeq(CallAreas), Area(rect))

\* r lies inside the bounding rectangle
Inside(r) ==
    /\ Le(rect.x, r.x)
    /\ Le(Add(r.x, r.w), Add(rect.x, rect.w))
    /\ Le(rect.y, r.y)
    /\ Le(Add(r.y, r.h), Add(rect.y, rect.h))

\* C6: for every algorithm and every input of non-negative weights with a
\* positive total, every rectangle passed to the assigner lies inside the
\* bounding rectangle, for the integer type and in exact arithmetic.
C6_Containment ==
    (pc # "ready" /\ Gt(WeightTotal, Zero)) =>
        \A i \in 1..Len(calls) : Inside(calls[i].r)

\* C7: every rectangle passed to the assigner by any of the six algorithms
\* has w >= 0 and h >= 0 (the bounding rectangle has w >= 0 and h >= 0 and
\* the weights are non-negative), for the integer type and in exact
\* arithmetic.
C7_NonNegativeSize ==
    pc # "ready" =>
        \A i \in 1..Len(calls) : Ge(calls[i].r.w, Zero) /\ Ge(calls[i].r.h, Zero)

\* the strips of slice (along y) or dice (along x): offset and length of a
\* rectangle along the split axis, its offset and length across it
Along(r) ==
    IF alg = "slice" THEN [at |-> r.y, len |-> r.h, cat |-> r.x, clen |-> r.w]
    ELSE [at |-> r.x, len |-> r.w, cat |-> r.y, clen |-> r.h]

\* the calls are the strips of the claim: contiguous from the origin of the
\* container, spanning its cross axis, every non-final strip of length
\* (scaled weight) / (cross-axis length), the final one of length (container
\* length - running offset), the lengths summing to the container length
StripLayout ==
    LET c == Along(rect)
        n == Len(calls)
        strip(i) == Along(calls[i].r)
        scl == scale(numeric, rect, items)
    IN /\ AssignedOncePerItem
       /\ \A i \in 1..n :
            /\ Eq(strip(i).cat, c.cat)
            /\ Eq(strip(i).clen, c.clen)
            /\ Eq(strip(i).at, IF i = 1 THEN c.at
                               ELSE Add(strip(i - 1).at, strip(i - 1).len))
            /\ Eq(strip(i).len,
                  IF i < n THEN Div(numeric, Mul(items[i], scl), c.clen)
                  ELSE Sub(c.len, Sub(strip(i).at, c.at)))
       /\ Eq(SumSeq([i \in 1..n |-> strip(i).len]), c.len)

\* C8 as stated: after slice or dice on n >= 1 items the calls are the strips
\* described above.
C8_Original ==
    (pc = "returned" /\ alg \in {"slice", "dice"} /\ Len(items) >= 1) => StripLayout

\* C8 amended: after slice or dice on n >= 1 items of non-zero total weight
\* in a container whose cross-axis length is not zero, the calls are the
\* strips described above (with a cross-axis length or a total weight of
\* zero the strip lengths are quotients by zero: NaN in floating point, so
\* that neither the offsets nor the sum of the lengths are numbers).
C8_StripsTileContainer ==
    (/\ pc = "returned"
     /\ alg \in {"slice", "dice"}
     /\ Len(items) >= 1
     /\ WeightTotal # Zero
     /\ Along(rect).clen # Zero) => StripLayout

\* a truncating division that leaves a remainder for the last strip
C8_Witness ==
    /\ pc = "returned"
    /\ alg = "slice"
    /\ numeric = "int"
    /\ Len(calls) = 3
    /\ WeightTotal # Zero
    /\ rect.w # Zero
    /\ Mul(calls[1].r.h, rect.w) # Mul(items[1], scale(numeric, rect, items))
    /\ Gt(calls[3].r.h, calls[1].r.h)
    /\ items[1] = items[3]

\* the rectangles of the squarified treemap example, by rows
PaperSquarified ==
    <<Rect(Zero, Zero, Num(3), Num(2)),
      Rect(Zero, Num(2), Num(3), Num(2)),
      Rect(Num(3), Zero, <<12, 7>>, <<7, 3>>),
      Rect(<<33, 7>>, Zero, <<9, 7>>, <<7, 3>>),
      Rect(Num(3), <<7, 3>>, <<6, 5>>, <<5, 3>>),
      Rect(<<21, 5>>, <<7, 3>>, <<6, 5>>, <<5, 3>>),
      Rect(<<27, 5>>, <<7, 3>>, <<3, 5>>, <<5, 3>>)>>

IsPaperCall == items = PaperItems /\ rect = PaperRect /\ numeric = "real"

\* the rows closed by squarify: <<index of the first item, number of items>>
Rows == [i \in 1..Len(log) |-> <<log[i].lo, log[i].len>>]

\* C9: squarify on the weights [6,6,4,3,2,2,1] and the rectangle
\* {x:0, y:0, w:6, h:4} assigns, in order, (0,0,3,2), (0,2,3,2),
\* (3,0,12/7,7/3), (33/7,0,9/7,7/3), (3,7/3,6/5,5/3), (21/5,7/3,6/5,5/3),
\* (27/5,7/3,3/5,5/3); its rows are {0,1}, {2,3}, {4}, {5}, {6}.
C9_PaperExample ==
    (IsPaperCall /\ alg = "squarify" /\ pc # "ready") =>
        /\ pc = "returned"
        /\ calls = [i \in 1..7 |-> Call(i - 1, PaperSquarified[i])]
        /\ Rows = <<<<0, 2>>, <<2, 2>>, <<4, 1>>, <<5, 1>>, <<6, 1>>>>

C9_Witness == IsPaperCall /\ alg = "squarify" /\ pc = "returned" /\ Len(calls) = 7

\* the factors the weights are multiplied by
MaxFactor == 3

Times(its, k) == [i \in 1..Len(its) |-> Mul(its[i], Num(k))]

\* the call made in this state gives, on the weights multiplied by k, the
\* same sequence of assigned rectangles
SameLayoutTimes(k) ==
    LET out == Layout(alg, numeric, rect, Times(items, k))
    IN out.end = pc /\ out.calls = calls

ScaleInvariantAlgorithms ==
    {"binary", "squarify", "ordered_pivot_by_middle", "ordered_pivot_by_size"}

\* C10 as stated: for binary, squarify and the two ordered-pivot variants,
\* multiplying every weight by the same positive constant gives exactly the
\* same sequence of assigned rectangles.
C10_Original ==
    (pc # "ready" /\ alg \in ScaleInvariantAlgorithms) =>
        \A k \in 1..MaxFactor : SameLayoutTimes(k)

\* C10 amended: in exact arithmetic, for binary, squarify and the two
\* ordered-pivot variants, multiplying every weight by the same positive
\* constant gives exactly the same sequence of assigned rectangles (with the
\* truncating division of an integer type it need not).
C10_ScalingInvariance ==
    (pc # "ready" /\ alg \in ScaleInvariantAlgorithms /\ numeric = "real") =>
        \A k \in 1..MaxFactor : SameLayoutTimes(k)

C10_Witness ==
    /\ IsPaperCall
    /\ pc = "returned"
    /\ alg = "ordered_pivot_by_size"
    /\ Len(calls) = 7
    /\ SameLayoutTimes(2)

\* C11: a call of any of the six algorithms with exactly one item, of
\* non-zero weight, returns and has invoked the assigner exactly once, with
\* the bounding rectangle itself (also when a side of the rectangle is zero:
\* nothing is divided by it).
C11_SingleItemWholeRect ==
    (pc # "ready" /\ Len(items) = 1 /\ items[1] # Zero) =>
        (pc = "returned" /\ calls = <<Call(0, rect)>>)

C11_Witness ==
    /\ pc = "returned"
    /\ alg = "dice"
    /\ numeric = "int"
    /\ Len(items) = 1
    /\ Gt(items[1], Area(rect))
    /\ Gt(rect.w, rect.h)
    /\ Gt(rect.h, Zero)
    /\ calls = <<Call(0, rect)>>

\* the cumulative weight of the n items from the 0-based index lo on
GroupWeight(lo, n) == SumSeq(SubSeq(items, lo + 1, lo + n))

\* the assigner was invoked on none of the n items from the index lo on
NoCallIn(lo, n) == \A i \in 1..Len(calls) : calls[i].idx \notin lo..(lo + n - 1)

\* the groups <<lo, n>> that the splits of binary recursed into or assigned
BinaryChildren ==
    UNION {{<<log[e].lo, log[e].mid>>,
            <<log[e].lo + log[e].mid, log[e].len - log[e].mid>>} :
           e \in {i \in 1..Len(log) : log[i].t = "split"}}

Recursive == {"binary", "ordered_pivot_by_middle", "ordered_pivot_by_size"}

\* the decisions logged by the splits of binary / the pivots of _ordered_pivot
Splits == {log[i] : i \in {j \in 1..Len(log) : log[j].t = "split"}}

Pivots == {log[i] : i \in {j \in 1..Len(log) : log[j].t = "pivot"}}

\* C13: in binary and in both ordered-pivot variants every recursive call is
\* made on a group with strictly fewer items than the group of its caller: a
\* split of binary has 1 <= mid < len, so that both items[0..mid] and
\* items[mid..] are shorter; l1, l2 and l3 of _ordered_pivot leave the pivot
\* out; and binary, which divides by nothing that can be zero, returns.
C13_GroupsShrink ==
    (pc # "ready" /\ alg \in Recursive) =>
        /\ \A e \in Splits : 1 <= e.mid /\ e.mid < e.len
        /\ \A e \in Pivots :
              /\ 0 <= e.p0_idx
              /\ e.p0_idx < e.len
              /\ e.p1_idx + 1 <= e.len - e.p0_idx - 1
        /\ alg = "binary" => pc = "returned"

\* |left weight - right weight| of the split of the group <<lo, len>> after
\* its first m items
Imbalance(lo, len, m) ==
    LET d == Sub(GroupWeight(lo, m), GroupWeight(lo + m, len - m))
    IN IF Gt(Zero, d) THEN Neg(d) ELSE d

\* C14: at every split of binary of a group of two or more items, the
\* weights all positive, the split index minimises |left weight - right
\* weight| over the splits of the group into a non-empty prefix and a
\* non-empty suffix.
C14_BalancedSplit ==
    (pc # "ready" /\ alg = "binary" /\ AllPositive) =>
        \A e \in Splits :
            \A m \in 1..(e.len - 1) :
                Le(Imbalance(e.lo, e.len, e.mid), Imbalance(e.lo, e.len, m))

\* the rows closed by squarify
RowEvents == {log[i] : i \in {j \in 1..Len(log) : log[j].t = "row"}}

\* the invocations made for the items of the row e, in order
RowCalls(e) ==
    LET idxs == {i \in 1..Len(calls) :
                    calls[i].idx \in e.lo..(e.lo + e.len - 1)}
        first == IF idxs = {} THEN 1 ELSE CHOOSE i \in idxs : \A j \in idxs : i <= j
    IN [k \in 1..Cardinality(idxs) |-> calls[first + k - 1].r]

\* the rectangles rs are stacked along y from the corner of r, sharing x and
\* the width w (_slice)
Stacked(rs, r, w) ==
    \A k \in 1..Len(rs) :
        /\ rs[k].x = r.x
        /\ rs[k].w = w
        /\ rs[k].y = IF k = 1 THEN r.y ELSE Add(rs[k - 1].y, rs[k - 1].h)

\* the rectangles rs are side by side along x from the corner of r, sharing
\* y and the height h (_dice)
SideBySide(rs, r, h) ==
    \A k \in 1..Len(rs) :
        /\ rs[k].y = r.y
        /\ rs[k].h = h
        /\ rs[k].x = IF k = 1 THEN r.x ELSE Add(rs[k - 1].x, rs[k - 1].w)

\* C15 as stated: in squarify a closed row is filled via Dice (side by side
\* along x, sharing y and h) when the remaining rectangle is wider than tall,
\* and via Slice (stacked along y, sharing x and w) otherwise.
C15_Original ==
    (pc # "ready" /\ alg = "squarify") =>
        \A e \in RowEvents :
            IF e.wide THEN SideBySide(RowCalls(e), e.r, e.r.h)
            ELSE Stacked(RowCalls(e), e.r, e.r.w)

\* C15 amended: in squarify a closed row is filled via Slice (stacked along
\* y, sharing x and the row's width split_side) when the remaining rectangle
\* is wider than tall, and via Dice (side by side along x, sharing y and the
\* row's height split_side) otherwise.
C15_RowFill ==
    (pc # "ready" /\ alg = "squarify") =>
        \A e \in RowEvents :
            IF e.wide THEN Stacked(RowCalls(e), e.r, e.split_side)
            ELSE SideBySide(RowCalls(e), e.r, e.split_side)

C15_Witness ==
    /\ pc = "returned"
    /\ alg = "squarify"
    /\ numeric = "real"
    /\ \E e \in RowEvents :
          /\ e.wide
          /\ e.len = 2
          /\ Len(RowCalls(e)) = 2
          /\ RowCalls(e)[1].x = RowCalls(e)[2].x
          /\ Gt(RowCalls(e)[2].y, RowCalls(e)[1].y)
    /\ \E e \in RowEvents :
          /\ ~e.wide
          /\ e.len = 2
          /\ Len(RowCalls(e)) = 2
          /\ RowCalls(e)[1].y = RowCalls(e)[2].y
          /\ Gt(RowCalls(e)[2].x, RowCalls(e)[1].x)

\* the fraction p = <<numer, denom>> is greater than the fraction q
RatioGt(p, q) == Gt(Mul(p[1], q[2]), Mul(q[1], p[2]))

\* the worst aspect ratio, as a fraction, of the first k items that remain at
\* the row e when they are laid in a band of thickness (their total size) /
\* (short side): the maximum over them of max(a/b, b/a)
WorstRatio(e, k) ==
    LET side == IF e.wide THEN e.r.h ELSE e.r.w
        sizes == Scaled(SubSeq(items, e.lo + 1, e.lo + k), scale(numeric, rect, items))
        all == {ratio(Mul(side, side), SumSeq(sizes), sizes[i]) : i \in 1..k}
    IN CHOOSE p \in all : \A q \in all : ~RatioGt(q, p)

\* the number of items of the row e if it is closed at the first item whose
\* addition increases the worst aspect ratio of the row
RowLenByWorstRatio(e) ==
    LET n == Len(items) - e.lo
        closes == {k \in 1..(n - 1) : RatioGt(WorstRatio(e, k + 1), WorstRatio(e, k))}
    IN IF closes = {} THEN n ELSE CHOOSE k \in closes : \A j \in closes : k <= j

\* C16: in squarify, whatever the order of the weights (taken positive, the
\* rectangle of positive area, the arithmetic exact), a row is closed exactly
\* at the first item whose addition would increase the worst aspect ratio of
\* the row, the maximum over the items of the row of max(a/b, b/a) in a band
\* of thickness running weight / short side; the items before it form the
\* row.
C16_RowClosedAtWorstIncrease ==
    (/\ pc = "returned"
     /\ alg = "squarify"
     /\ numeric = "real"
     /\ AllPositive
     /\ Gt(rect.w, Zero)
     /\ Gt(rect.h, Zero)) =>
        \A e \in RowEvents : e.len = RowLenByWorstRatio(e)

\* C17: in ordered_pivot_by_size, for every group the index returned by the
\* pivot rule is that of an item whose weight is the maximum of the weights
\* of the group, the lowest such index when several items tie, for every
\* weight sequence.
C17_PivotIsFirstMaximum ==
    (pc # "ready" /\ alg = "ordered_pivot_by_size") =>
        \A e \in Pivots :
            LET w(i) == items[e.lo + i + 1]
            IN /\ \A i \in 0..(e.len - 1) : Ge(w(e.p0_idx), w(i))
               /\ \A i \in 0..(e.p0_idx - 1) : Gt(w(e.p0_idx), w(i))

\* the row events of squarify in the order of the iterations of its loop
RowSeq == [i \in 1..Len(log) |-> log[i]]

====
